---- MODULE Spec2Model ----
(***************************************************************************)
(* A model of fumen-rs (src/src/lib.rs): the codec between a sequence of   *)
(* pages (Fumen) and its "v115@" text form.                                *)
(*                                                                         *)
(* Characters and bytes are natural numbers (code points).  A field is a   *)
(* function [0..22 -> [0..9 -> 0..8]] indexed field[y][x] as in the source *)
(* and an Option<T> is the empty sequence (None) or a one-element sequence *)
(* (Some).  Integer overflow follows the build: with overflow checks (a    *)
(* debug build) it panics, without them (a release build) it wraps.  A     *)
(* wrapped unsigned value 2^w - n is written -n (its two's-complement      *)
(* reading): the model's integers are narrower than 2^32.                  *)
(***************************************************************************)
EXTENDS Integers, Sequences, FiniteSets, TLC

VARIABLES
    overflow_checks, \* the build profile: TRUE = overflow panics, FALSE = it wraps
    phase,           \* position of the driver: "build", "encode", "decode", "done"
    pages,           \* Fumen.pages of the document under construction
    guideline,       \* Fumen.guideline of the document under construction
    edits,           \* number of mutations applied to the document so far
    data,            \* encode: the output buffer
    prev_field,      \* encode: the baseline field of the next page
    empty_field,     \* encode: Option<(index, count)> of the pending run count
    first,           \* encode: the `first` flag
    epage,           \* encode: number of pages already encoded
    estart,          \* encode (history): data.len() at the start of each iteration
    input,           \* decode: the text given to decode
    dpos,            \* decode: number of items of `iter` consumed
    dpages,          \* decode: fumen.pages
    dguideline,      \* decode: fumen.guideline
    empty_fields,    \* decode: the unchanged-run counter
    result,          \* decode: "running", "Some", "None" or "panic"
    piece,           \* coordinate mapper: the piece under conversion
    fpos,            \* coordinate mapper: Option<u32>, its fumen_pos
    back,            \* coordinate mapper: Option<Piece>, decoded from fpos
    comment,         \* comment codec: the text
    packed,          \* comment codec: Option<digits> emitted by encode
    unpacked         \* comment codec: Option<[text, used]> read back by decode

vars == <<overflow_checks, phase, pages, guideline, edits, data, prev_field,
          empty_field, first, epage, estart, input, dpos, dpages, dguideline,
          empty_fields, result, piece, fpos, back, comment, packed, unpacked>>

docVars == <<pages, guideline, edits>>
encVars == <<data, prev_field, empty_field, first, epage, estart>>
decVars == <<input, dpos, dpages, dguideline, empty_fields, result>>
pieceVars == <<piece, fpos, back>>
commentVars == <<comment, packed, unpacked>>

----------------------------------------------------------------------------
(* Program constants. *)

Width == 10
Height == 23
FumenRows == 24
Cells == 240
Grey == 8
MaxEscaped == 4095
SaturatedCount == 63
GuidelineTerm == 240 * 128

\* PieceType and RotationState discriminants
PI == 1
PL == 2
PO == 3
PZ == 4
PT == 5
PJ == 6
PS == 7
South == 0
East == 1
North == 2
West == 3

Xs == 0 .. (Width - 1)
Ys == 0 .. (Height - 1)
Colors == 0 .. Grey

None == << >>
Some(v) == << v >>
IsSome(o) == Len(o) = 1
Unwrap(o) == o[1]

Min(a, b) == IF a < b THEN a ELSE b

\* the sequence s itself, its elements computed once
Strict(s) == SubSeq(s, 1, Len(s))

\* BASE64_CHARS, as code points; BASE64_CHARS[v] of the source is B64(v)
BASE64_CHARS ==
    << 65, 66, 67, 68, 69, 70, 71, 72, 73, 74,
       75, 76, 77, 78, 79, 80, 81, 82, 83, 84,
       85, 86, 87, 88, 89, 90, 97, 98, 99, 100,
       101, 102, 103, 104, 105, 106, 107, 108, 109, 110,
       111, 112, 113, 114, 115, 116, 117, 118, 119, 120,
       121, 122, 48, 49, 50, 51, 52, 53, 54, 55,
       56, 57, 43, 47 >>

B64(v) == BASE64_CHARS[v + 1]

\* from_base64: the digit of a character, or -1 for a character outside the table
from_base64(c) ==
    IF c >= 65 /\ c <= 90 THEN c - 65
    ELSE IF c >= 97 /\ c <= 122 THEN c - 97 + 26
    ELSE IF c >= 48 /\ c <= 57 THEN c - 48 + 52
    ELSE IF c = 43 THEN 62
    ELSE IF c = 47 THEN 63
    ELSE -1

\* decode_cell_color: Option<CellColor>
decode_cell_color(value) ==
    IF value >= 0 /\ value <= 8 THEN Some(value) ELSE None

Header == << 118, 49, 49, 53, 64 >>

----------------------------------------------------------------------------
(* Page and Piece. *)

EmptyRow == [x \in Xs |-> 0]
EmptyField == [y \in Ys |-> EmptyRow]

\* Page::default
DefaultPage ==
    [ piece |-> None, field |-> EmptyField, garbage_row |-> EmptyRow,
      rise |-> FALSE, mirror |-> FALSE, lock |-> TRUE, comment |-> None ]

\* `v as i32` of a u32: a wrapped value is already written as its signed reading
AsI32(v) == v

\* the canonical offsets of Piece::cells, before rotation
CellOffsets(kind) ==
    CASE kind = PI -> << <<-1, 0>>, <<0, 0>>, <<1, 0>>, <<2, 0>> >>
      [] kind = PO -> << <<0, 0>>, <<1, 0>>, <<0, 1>>, <<1, 1>> >>
      [] kind = PT -> << <<-1, 0>>, <<0, 0>>, <<1, 0>>, <<0, 1>> >>
      [] kind = PL -> << <<-1, 0>>, <<0, 0>>, <<1, 0>>, <<1, 1>> >>
      [] kind = PJ -> << <<-1, 0>>, <<0, 0>>, <<1, 0>>, <<-1, 1>> >>
      [] kind = PS -> << <<-1, 0>>, <<0, 0>>, <<0, 1>>, <<1, 1>> >>
      [] kind = PZ -> << <<1, 0>>, <<0, 0>>, <<0, 1>>, <<-1, 1>> >>

\* the rotation of one offset in Piece::cells
Rotate(rotation, c) ==
    CASE rotation = North -> c
      [] rotation = East -> << c[2], -c[1] >>
      [] rotation = South -> << -c[1], -c[2] >>
      [] rotation = West -> << -c[2], c[1] >>

\* Piece::cells: the four (x, y) cells, as i32
cells(p) ==
    [ i \in 1 .. 4 |->
        LET r == Rotate(p.rotation, CellOffsets(p.kind)[i])
        IN  << r[1] + AsI32(p.x), r[2] + AsI32(p.y) >> ]

InField(c) == c[1] \in Xs /\ c[2] \in Ys

\* the four cells of p lie inside the playfield
PieceInField(p) == \A i \in 1 .. 4 : InField(cells(p)[i])

\* Page::fumen_field: rows top-down, the garbage row last
fumen_field(page) ==
    [ y \in 0 .. (FumenRows - 1) |->
        IF y = FumenRows - 1 THEN page.garbage_row ELSE page.field[22 - y] ]

\* the index into field[y][x] of Page::next_page is out of range
LockPanics(page) ==
    /\ IsSome(page.piece)
    /\ page.lock
    /\ ~PieceInField(Unwrap(page.piece))

\* next_page, piece placement: field[y][x] = piece.kind.into() for each cell
LockField(page) ==
    IF IsSome(page.piece) /\ page.lock
    THEN LET p == Unwrap(page.piece)
             cs == cells(p)
         IN  [ y \in Ys |-> [ x \in Xs |->
                 IF \E i \in 1 .. 4 : cs[i] = << x, y >>
                 THEN p.kind ELSE page.field[y][x] ] ]
    ELSE page.field

\* RowCleared with `cleared` set by any filled cell
RowCleared_Any(row) == \E x \in Xs : row[x] # 0

\* the flag `cleared` of the line-clear loop: the row has no empty cell
RowCleared(row) == \A x \in Xs : row[x] # 0

\* next_page, line clear: the loop `for i in 0..23` with its write index y;
\* st = [field, y], i the row under inspection
RECURSIVE ClearLoop(_, _)
ClearLoop(st, i) ==
    IF i = Height THEN st
    ELSE IF ~RowCleared(st.field[i])
         THEN ClearLoop([ field |-> [st.field EXCEPT ![st.y] = st.field[i]],
                          y |-> st.y + 1 ], i + 1)
         ELSE ClearLoop(st, i + 1)

ClearLines(field) ==
    LET st == ClearLoop([field |-> field, y |-> 0], 0)
    IN  [ i \in Ys |-> IF i >= st.y THEN EmptyRow ELSE st.field[i] ]

\* next_page, rise: `for i in (1..23).rev() { field[i] = field[i-1] }`
RiseField(field, garbage_row) ==
    [ i \in Ys |-> IF i = 0 THEN garbage_row ELSE field[i - 1] ]

\* row.reverse()
ReverseRow(row) == [ x \in Xs |-> row[(Width - 1) - x] ]

MirrorField(field) == [ y \in Ys |-> ReverseRow(field[y]) ]

\* next_page with the mirror rule applied before the rise rule
next_page_MirrorFirst(page) ==
    LET locked == LockField(page)
        cleared == ClearLines(locked)
        mirrored == IF page.mirror THEN MirrorField(cleared) ELSE cleared
        risen == IF page.rise THEN RiseField(mirrored, page.garbage_row)
                 ELSE mirrored
    IN  [ piece |-> None, comment |-> None, rise |-> FALSE, mirror |-> FALSE,
          lock |-> page.lock, field |-> risen,
          garbage_row |-> IF page.rise THEN EmptyRow ELSE page.garbage_row ]

\* next_page with rise and mirror copied into the returned page
next_page_KeepFlags(page) ==
    LET locked == LockField(page)
        cleared == ClearLines(locked)
        risen == IF page.rise THEN RiseField(cleared, page.garbage_row)
                 ELSE cleared
        mirrored == IF page.mirror THEN MirrorField(risen) ELSE risen
    IN  [ piece |-> None, comment |-> None, rise |-> page.rise,
          mirror |-> page.mirror, lock |-> page.lock, field |-> mirrored,
          garbage_row |-> IF page.rise THEN EmptyRow ELSE page.garbage_row ]

\* Page::next_page, for a page on which it does not panic
next_page(page) ==
    LET locked == LockField(page)
        cleared == ClearLines(locked)
        risen == IF page.rise THEN RiseField(cleared, page.garbage_row)
                 ELSE cleared
        mirrored == IF page.mirror THEN MirrorField(risen) ELSE risen
    IN  [ piece |-> None, comment |-> None, rise |-> FALSE, mirror |-> FALSE,
          lock |-> page.lock, field |-> mirrored,
          garbage_row |-> IF page.rise THEN EmptyRow ELSE page.garbage_row ]

\* the x and y matches of Piece::fumen_pos, over the integers
FumenX(p) ==
    CASE p.kind = PS /\ p.rotation = East -> p.x + 1
      [] p.kind = PZ /\ p.rotation = West -> p.x - 1
      [] p.kind = PO /\ p.rotation = West -> p.x - 1
      [] p.kind = PO /\ p.rotation = South -> p.x - 1
      [] p.kind = PI /\ p.rotation = South -> p.x - 1
      [] OTHER -> p.x

\* FumenY without the correction of the O piece facing West
FumenY_NoOWest(p) ==
    CASE p.kind = PS /\ p.rotation = North -> p.y + 1
      [] p.kind = PZ /\ p.rotation = North -> p.y + 1
      [] p.kind = PO /\ p.rotation = North -> p.y + 1
      [] p.kind = PI /\ p.rotation = West -> p.y + 1
      [] OTHER -> p.y

FumenY(p) ==
    CASE p.kind = PS /\ p.rotation = North -> p.y + 1
      [] p.kind = PZ /\ p.rotation = North -> p.y + 1
      [] p.kind = PO /\ p.rotation = North -> p.y + 1
      [] p.kind = PO /\ p.rotation = West -> p.y + 1
      [] p.kind = PI /\ p.rotation = West -> p.y + 1
      [] OTHER -> p.y

\* some u32 operation of Piece::fumen_pos leaves 0 .. 2^32-1
FumenPosOverflows(p) ==
    \/ FumenX(p) < 0
    \/ 22 - FumenY(p) < 0

\* Piece::fumen_pos: Option<u32>, None standing for the overflow panic
fumen_pos(p, checks) ==
    IF FumenPosOverflows(p) /\ checks THEN None
    ELSE Some(FumenX(p) + (22 - FumenY(p)) * 10)

\* Piece::fumen_number, given the position
piece_fumen_number(p, pos) == p.kind + 8 * p.rotation + 32 * pos

BoolInt(b) == IF b THEN 1 ELSE 0

\* Page::fumen_number, given the piece's position (0 without a piece)
page_fumen_number(page, pos) ==
    (IF IsSome(page.piece) THEN piece_fumen_number(Unwrap(page.piece), pos) ELSE 0)
    + 240 * 32 * ( BoolInt(page.rise) + 2 * BoolInt(page.mirror)
                   + 8 * BoolInt(IsSome(page.comment))
                   + 16 * BoolInt(~page.lock) )

----------------------------------------------------------------------------
(* The comment codec. *)

\* HEX_DIGITS[v]
HexDigit(v) == IF v < 10 THEN 48 + v ELSE 65 + (v - 10)

\* the characters js_escape copies unchanged
Unescaped(c) ==
    \/ c >= 97 /\ c <= 122
    \/ c >= 65 /\ c <= 90
    \/ c >= 48 /\ c <= 57
    \/ c \in {64, 42, 95, 43, 45, 46, 47}

\* char::encode_utf16: one code unit, or a surrogate pair
encode_utf16(c) ==
    IF c < 65536 THEN << c >>
    ELSE << 55296 + ((c - 65536) \div 1024), 56320 + ((c - 65536) % 1024) >>

\* "%u" and the four hex digits of one code unit
EscapeUnit(u) ==
    << 37, 117, HexDigit((u \div 4096) % 16), HexDigit((u \div 256) % 16),
       HexDigit((u \div 16) % 16), HexDigit(u % 16) >>

\* js_escape, one character
EscapeChar(c) ==
    IF Unescaped(c) THEN << c >>
    ELSE IF c <= 255 THEN << 37, HexDigit((c \div 16) % 16), HexDigit(c % 16) >>
    ELSE LET us == encode_utf16(c)
         IN  IF Len(us) = 1 THEN EscapeUnit(us[1])
             ELSE EscapeUnit(us[1]) \o EscapeUnit(us[2])

RECURSIVE js_escape(_)
js_escape(s) ==
    IF s = << >> THEN << >> ELSE EscapeChar(Head(s)) \o js_escape(Tail(s))

\* char::to_digit(16): the value of a hex digit, or -1
to_digit16(c) ==
    IF c >= 48 /\ c <= 57 THEN c - 48
    ELSE IF c >= 97 /\ c <= 102 THEN c - 97 + 10
    ELSE IF c >= 65 /\ c <= 70 THEN c - 65 + 10
    ELSE -1

\* the inner `decode` of js_unescape: up to c characters from position i of s,
\* the hex digits among them accumulated
RECURSIVE unescape_decode(_, _, _, _)
unescape_decode(s, i, c, number) ==
    IF c = 0 \/ i > Len(s) THEN number
    ELSE unescape_decode(s, i + 1, c - 1,
            IF to_digit16(s[i]) >= 0 THEN number * 16 + to_digit16(s[i])
            ELSE number)

\* js_unescape up to from_utf16_lossy: the code units, reading s from position i
RECURSIVE unescape_units(_, _)
unescape_units(s, i) ==
    IF i > Len(s) THEN << >>
    ELSE IF s[i] = 37
         THEN IF i + 1 <= Len(s) /\ s[i + 1] = 117
              THEN << unescape_decode(s, i + 2, 4, 0) >>
                   \o unescape_units(s, Min(i + 6, Len(s) + 1))
              ELSE << unescape_decode(s, i + 1, 2, 0) >>
                   \o unescape_units(s, Min(i + 3, Len(s) + 1))
         ELSE << s[i] % 65536 >> \o unescape_units(s, i + 1)

IsHighSurrogate(u) == u >= 55296 /\ u <= 56319
IsLowSurrogate(u) == u >= 56320 /\ u <= 57343

\* String::from_utf16_lossy: an unpaired surrogate becomes U+FFFD
RECURSIVE from_utf16_lossy(_)
from_utf16_lossy(us) ==
    IF us = << >> THEN << >>
    ELSE IF IsHighSurrogate(us[1]) /\ Len(us) >= 2 /\ IsLowSurrogate(us[2])
         THEN << 65536 + (us[1] - 55296) * 1024 + (us[2] - 56320) >>
              \o from_utf16_lossy(Tail(Tail(us)))
         ELSE IF IsHighSurrogate(us[1]) \/ IsLowSurrogate(us[1])
              THEN << 65533 >> \o from_utf16_lossy(Tail(us))
              ELSE << us[1] >> \o from_utf16_lossy(Tail(us))

js_unescape(s) == from_utf16_lossy(unescape_units(s, 1))

\* ChunkValue in base 95
RECURSIVE ChunkValue_Base95(_)
ChunkValue_Base95(c) ==
    IF c = << >> THEN 0 ELSE (Head(c) - 32) + 95 * ChunkValue_Base95(Tail(c))

\* encode, one chunk of up to 4 escaped bytes: v in base 96, last byte first
RECURSIVE ChunkValue(_)
ChunkValue(c) ==
    IF c = << >> THEN 0 ELSE (Head(c) - 32) + 96 * ChunkValue(Tail(c))

\* the five digits pushed for one chunk value
FiveDigits(v) ==
    << B64(v % 64), B64((v \div 64) % 64), B64((v \div 4096) % 64),
       B64((v \div 262144) % 64), B64((v \div 16777216) % 64) >>

RECURSIVE PackChunks(_)
PackChunks(encoded) ==
    IF encoded = << >> THEN << >>
    ELSE LET n == Min(4, Len(encoded))
         IN  FiveDigits(ChunkValue(SubSeq(encoded, 1, n)))
             \o PackChunks(SubSeq(encoded, n + 1, Len(encoded)))

\* the two digits pushed for the escaped length
LengthDigits(n) == << B64(n % 64), B64((n \div 64) % 64) >>

\* encode, the comment of a page: the bytes pushed for Some(comment)
EncodeComment(text) ==
    LET escaped == js_escape(text)
        encoded == SubSeq(escaped, 1, Min(Len(escaped), MaxEscaped))
    IN  LengthDigits(Len(encoded)) \o PackChunks(encoded)

----------------------------------------------------------------------------
(* encode, one iteration of `for page in &self.pages`. *)

\* fumen_field_delta
fumen_field_delta(from, to) ==
    [ y \in 0 .. (FumenRows - 1) |-> [ x \in Xs |-> 8 + to[y][x] - from[y][x] ] ]

\* deltas == [[8; 10]; 24]
AllEight(deltas) ==
    \A y \in 0 .. (FumenRows - 1) : \A x \in Xs : deltas[y][x] = 8

\* RunDigits without the `- 1`
RunDigits_NoMinusOne(prev, count) ==
    LET num == prev * 240 + count
    IN  << B64(num % 64), B64((num \div 64) % 64) >>

\* the two digits pushed for one run
RunDigits(prev, count) ==
    LET num == prev * 240 + count - 1
    IN  << B64(num % 64), B64((num \div 64) % 64) >>

\* the inner loop `for x in 0..10` of the run-length encoding, on row y;
\* st = [prev, count, out]
RECURSIVE RleRow(_, _, _)
RleRow(row, x, st) ==
    IF x = Width THEN st
    ELSE IF row[x] = st.prev
         THEN RleRow(row, x + 1, [st EXCEPT !.count = st.count + 1])
         ELSE RleRow(row, x + 1,
                     [ prev |-> row[x], count |-> 1,
                       out |-> st.out \o RunDigits(st.prev, st.count) ])

\* the outer loop `for y in 0..24`
RECURSIVE RleRows(_, _, _)
RleRows(deltas, y, st) ==
    IF y = FumenRows THEN st
    ELSE RleRows(deltas, y + 1, RleRow(deltas[y], 0, st))

\* the bytes pushed for a changed field, lines 106-123
RleEncode(deltas) ==
    LET st == RleRows(deltas, 0, [prev |-> deltas[0][0], count |-> 0, out |-> << >>])
    IN  st.out \o RunDigits(st.prev, st.count)

\* data[index] = BASE64_CHARS[count]
Patch(buf, index, count) == [buf EXCEPT ![index + 1] = B64(count)]

\* a run closed one page early
RunLimit_Early == SaturatedCount - 1

\* the count at which a pending run is closed
RunLimit == SaturatedCount

\* encode, lines 82-124: the field of one page; st = [data, empty_field]
EncodeField(st, deltas) ==
    IF AllEight(deltas)
    THEN IF IsSome(st.empty_field)
         THEN LET index == Unwrap(st.empty_field).index
                  count == Unwrap(st.empty_field).count + 1
              IN  IF count = RunLimit
                  THEN [ data |-> Patch(st.data, index, count),
                         empty_field |-> None ]
                  ELSE [ data |-> st.data,
                         empty_field |-> Some([index |-> index, count |-> count]) ]
         ELSE [ data |-> st.data \o << 118, 104, 0 >>,
                empty_field |-> Some([index |-> Len(st.data) + 2, count |-> 0]) ]
    ELSE LET buf == IF IsSome(st.empty_field)
                    THEN Patch(st.data, Unwrap(st.empty_field).index,
                               Unwrap(st.empty_field).count)
                    ELSE st.data
         IN  [ data |-> buf \o RleEncode(deltas), empty_field |-> None ]

\* the flag term with the weight 240 * 32 * 128
FlagTerm_Bit128(g) == BoolInt(g) * (240 * 32 * 128)

\* the term added to the first page's number for the document-wide flag
FlagTerm(g) == BoolInt(g) * GuidelineTerm

\* page_flags with the flag term added on every page
PageFlags_EveryPage(page, pos, isFirst, g) ==
    page_fumen_number(page, pos) + FlagTerm(g)

\* encode, lines 126-129: page_flags
PageFlags(page, pos, isFirst, g) ==
    page_fumen_number(page, pos) + (IF isFirst THEN FlagTerm(g) ELSE 0)

\* the three digits pushed for page_flags
ThreeDigits(v) ==
    << B64(v % 64), B64((v \div 64) % 64), B64((v \div 4096) % 64) >>

\* encode panics on this page: fumen_pos overflows under overflow checks, or
\* next_page indexes outside the field
EncodePanics(page, checks) ==
    \/ IsSome(page.piece) /\ fumen_pos(Unwrap(page.piece), checks) = None
    \/ LockPanics(page)

\* one iteration of the loop, for a page on which it does not panic;
\* st = [data, prev_field, empty_field, first]
EncodePage(st, page, g, checks) ==
    LET deltas == fumen_field_delta(st.prev_field, fumen_field(page))
        f == EncodeField([data |-> st.data, empty_field |-> st.empty_field], deltas)
        pos == IF IsSome(page.piece)
               THEN Unwrap(fumen_pos(Unwrap(page.piece), checks)) ELSE 0
        word == ThreeDigits(PageFlags(page, pos, st.first, g))
        text == IF IsSome(page.comment)
                THEN EncodeComment(Unwrap(page.comment)) ELSE << >>
    IN  [ data |-> f.data \o word \o text,
          prev_field |-> fumen_field(next_page(page)),
          empty_field |-> f.empty_field,
          first |-> FALSE ]

\* encode without the patch at the end of the document
EncodeEnd_NoPatch(st) == st.data

\* encode, lines 157-160: the final patch
EncodeEnd(st) ==
    IF IsSome(st.empty_field)
    THEN Patch(st.data, Unwrap(st.empty_field).index, Unwrap(st.empty_field).count)
    ELSE st.data

----------------------------------------------------------------------------
(* decode. *)

\* the UTF-8 length of a character
Utf8Len(c) == IF c < 128 THEN 1 ELSE IF c < 2048 THEN 2 ELSE IF c < 65536 THEN 3 ELSE 4

RECURSIVE ByteLen(_)
ByteLen(s) == IF s = << >> THEN 0 ELSE Utf8Len(Head(s)) + ByteLen(Tail(s))

\* the number of characters of s that end at byte offset n, or -1 when n is
\* past the end of s or inside a character: the slice &data[..n] panics then
RECURSIVE CharsAt(_, _)
CharsAt(s, n) ==
    IF n = 0 THEN 0
    ELSE IF s = << >> \/ Utf8Len(Head(s)) > n THEN -1
    ELSE LET r == CharsAt(Tail(s), n - Utf8Len(Head(s)))
         IN  IF r < 0 THEN -1 ELSE r + 1

\* decode, lines 166-168: "panic", "None", or "ok" after a matching header
HeaderCheck(s) ==
    LET k == CharsAt(s, 5)
    IN  IF k < 0 THEN "panic"
        ELSE IF SubSeq(s, 1, k) # Header THEN "None"
        ELSE "ok"

\* data[5..].chars().map(from_base64), for a text that passed the header check
Items(s) == [ i \in 1 .. (Len(s) - 5) |-> from_base64(s[i + 5]) ]

\* n successive `iter.next()??` succeed after pos items
CanRead(ds, pos, n) ==
    /\ pos + n <= Len(ds)
    /\ \A i \in 1 .. n : ds[pos + i] >= 0

\* the little-endian number of the n items after pos
RECURSIVE ReadNumber(_, _, _)
ReadNumber(ds, pos, n) ==
    IF n = 0 THEN 0 ELSE ds[pos + 1] + 64 * ReadNumber(ds, pos + 1, n - 1)

Rep(v, n) == [ i \in 1 .. n |-> v ]

\* decode, lines 179-194: the runs of one field; acc holds the cells filled so far
RECURSIVE ReadRuns(_, _, _)
ReadRuns(ds, pos, acc) ==
    IF Len(acc) = Cells THEN [ok |-> TRUE, delta |-> acc, pos |-> pos]
    ELSE IF ~CanRead(ds, pos, 2) THEN [ok |-> FALSE, delta |-> acc, pos |-> pos]
    ELSE LET number == ReadNumber(ds, pos, 2)
             value == number \div 240
             repeats == (number % 240) + 1
         IN  IF Len(acc) + repeats > Cells
             THEN [ok |-> FALSE, delta |-> acc, pos |-> pos + 2]
             ELSE ReadRuns(ds, pos + 2, acc \o Rep(value, repeats))

\* the comparison with [[8; 10]; 24] cut down to the first row
DeltaAllEight_TopRow(delta) == \A k \in 1 .. Width : delta[k] = 8

\* delta == [[8; 10]; 24], the delta a sequence in linear order
DeltaAllEight(delta) == \A k \in 1 .. Cells : delta[k] = 8

\* the linear order of a fumen field: row 0 (the top) first, the garbage row last
Linear(ff) ==
    Strict([ k \in 1 .. Cells |-> ff[(k - 1) \div Width][(k - 1) % Width] ])

\* decode, lines 200 and 205: delta + previous - 8, cell by cell
CellValues(delta, base) ==
    LET prev == Linear(fumen_field(base))
    IN  Strict([ k \in 1 .. Cells |-> delta[k] + prev[k] - 8 ])

\* lines 198-207, for values that are all cell colours
ApplyValues(page, vals) ==
    [ page EXCEPT
        !.field = [ y \in Ys |-> [ x \in Xs |-> vals[(22 - y) * Width + x + 1] ] ],
        !.garbage_row = [ x \in Xs |-> vals[(FumenRows - 1) * Width + x + 1] ] ]

\* decode, lines 236-257: the piece of a page number, over the integers
\* DecodedX without the correction of the S piece facing East
DecodedX_NoSEast(kind, rotation, x) ==
    CASE kind = PZ /\ rotation = West -> x + 1
      [] kind = PO /\ rotation = West -> x + 1
      [] kind = PO /\ rotation = South -> x + 1
      [] kind = PI /\ rotation = South -> x + 1
      [] OTHER -> x

DecodedX(kind, rotation, x) ==
    CASE kind = PS /\ rotation = East -> x - 1
      [] kind = PZ /\ rotation = West -> x + 1
      [] kind = PO /\ rotation = West -> x + 1
      [] kind = PO /\ rotation = South -> x + 1
      [] kind = PI /\ rotation = South -> x + 1
      [] OTHER -> x

DecodedY(kind, rotation, y) ==
    CASE kind = PS /\ rotation = North -> y - 1
      [] kind = PZ /\ rotation = North -> y - 1
      [] kind = PO /\ rotation = North -> y - 1
      [] kind = PO /\ rotation = West -> y - 1
      [] kind = PI /\ rotation = West -> y - 1
      [] OTHER -> y

\* Option<Piece> of a piece number with a piece in it; None stands for the
\* overflow panic of `22 - piece_pos / 10`, `x - 1` or `y - 1`
DecodePiece(number, checks) ==
    LET kind == number % 8
        rotation == (number \div 8) % 4
        piece_pos == (number \div 32) % 240
        x == piece_pos % 10
        y == 22 - (piece_pos \div 10)
        px == DecodedX(kind, rotation, x)
        py == DecodedY(kind, rotation, y)
    IN  IF checks /\ (y < 0 \/ px < 0 \/ (y >= 0 /\ py < 0)) THEN None
        ELSE Some([kind |-> kind, rotation |-> rotation, x |-> px, y |-> py])

\* decode, lines 270-278: the groups of a comment; escaped holds the text so far
RECURSIVE UnpackGroups(_, _, _, _)
UnpackGroups(ds, pos, length, escaped) ==
    IF length = 0 THEN [ok |-> TRUE, escaped |-> escaped, pos |-> pos]
    ELSE IF ~CanRead(ds, pos, 5) THEN [ok |-> FALSE, escaped |-> escaped, pos |-> pos]
    ELSE LET number == ReadNumber(ds, pos, 5)
             n == Min(length, 4)
             chars == [ i \in 1 .. n |->
                         CASE i = 1 -> (number % 96) + 32
                           [] i = 2 -> ((number \div 96) % 96) + 32
                           [] i = 3 -> ((number \div 9216) % 96) + 32
                           [] i = 4 -> ((number \div 884736) % 96) + 32 ]
         IN  UnpackGroups(ds, pos + 5, length - n, escaped \o chars)

\* decode, lines 267-280: [ok, text, pos] of the comment that starts after pos
DecodeComment(ds, pos) ==
    IF ~CanRead(ds, pos, 2) THEN [ok |-> FALSE, text |-> << >>, pos |-> pos]
    ELSE LET g == UnpackGroups(ds, pos + 2, ReadNumber(ds, pos, 2), << >>)
         IN  [ok |-> g.ok, text |-> js_unescape(g.escaped), pos |-> g.pos]

\* decode, lines 174-210: the field of one page, on top of the page add_page gave
DecodeField(ds, pos, counter, base, checks) ==
    IF counter # 0
    THEN [status |-> "ok", page |-> base, pos |-> pos, empty_fields |-> counter - 1]
    ELSE LET r == ReadRuns(ds, pos, << >>)
             stop(status) ==
                 [status |-> status, page |-> base, pos |-> r.pos, empty_fields |-> 0]
         IN  IF ~r.ok THEN stop("None")
             ELSE IF DeltaAllEight(r.delta) /\ ~CanRead(ds, r.pos, 1) THEN stop("None")
             ELSE LET same == DeltaAllEight(r.delta)
                      vals == CellValues(r.delta, base)
                      bad == { k \in 1 .. Cells : vals[k] < 0 \/ vals[k] > 8 }
                      k0 == CHOOSE k \in bad : \A j \in bad : k <= j
                  IN  IF bad # {}
                      THEN IF vals[k0] < 0 /\ checks THEN stop("panic")
                           ELSE stop("None")
                      ELSE [ status |-> "ok",
                             page |-> ApplyValues(base, vals),
                             pos |-> IF same THEN r.pos + 1 ELSE r.pos,
                             empty_fields |-> IF same THEN ds[r.pos + 1] ELSE 0 ]

\* the document-wide flag bit of a page's flags
FlagBit(flags) == (flags \div 4) % 2 = 1

\* decode, lines 212-280: the page number, the piece, the flags and the comment
DecodePageData(ds, pos, page, checks) ==
    LET stop(status) ==
            [status |-> status, page |-> page, pos |-> pos, guideline |-> FALSE]
    IN  IF ~CanRead(ds, pos, 3) THEN stop("None")
        ELSE LET number == ReadNumber(ds, pos, 3)
                 pc == IF number % 8 = 0 THEN None ELSE DecodePiece(number, checks)
                 flags == (number \div 32) \div 240
                 hasComment == (flags \div 8) % 2 = 1
                 c == IF hasComment THEN DecodeComment(ds, pos + 3)
                      ELSE [ok |-> TRUE, text |-> << >>, pos |-> pos + 3]
             IN  IF number % 8 # 0 /\ pc = None THEN stop("panic")
                 ELSE IF ~c.ok THEN stop("None")
                 ELSE [ status |-> "ok",
                        page |-> [ page EXCEPT
                                     !.piece = pc,
                                     !.rise = (flags % 2 = 1),
                                     !.mirror = ((flags \div 2) % 2 = 1),
                                     !.lock = ((flags \div 16) % 2 = 0),
                                     !.comment = IF hasComment THEN Some(c.text)
                                                 ELSE page.comment ],
                        pos |-> c.pos,
                        guideline |-> FlagBit(flags) ]

\* Fumen::add_page panics: next_page of the last page indexes outside the field
AddPagePanics(ps) == ps # << >> /\ LockPanics(ps[Len(ps)])

\* the page Fumen::add_page pushes
AddedPage(ps) == IF ps = << >> THEN DefaultPage ELSE next_page(ps[Len(ps)])

\* decode, one iteration of `while iter.peek().is_some()`;
\* st = [status, pos, pages, guideline, empty_fields]
DecodeStep(ds, st, checks) ==
    IF AddPagePanics(st.pages) THEN [st EXCEPT !.status = "panic"]
    ELSE LET f == DecodeField(ds, st.pos, st.empty_fields, AddedPage(st.pages), checks)
         IN  IF f.status # "ok" THEN [st EXCEPT !.status = f.status]
             ELSE LET d == DecodePageData(ds, f.pos, f.page, checks)
                  IN  IF d.status # "ok" THEN [st EXCEPT !.status = d.status]
                      ELSE [ status |-> "ok",
                             pos |-> d.pos,
                             pages |-> Append(st.pages, d.page),
                             guideline |-> IF Len(st.pages) = 0 THEN d.guideline
                                           ELSE st.guideline,
                             empty_fields |-> f.empty_fields ]

----------------------------------------------------------------------------
(* Bounds and the sampled inputs. *)

MaxPages == 2
MaxEdits == 2

\* the cells written by SetCell: (x, y, colour)
SampleCells == { << 0, 22, Grey >>, << 9, 0, PI >> }
SampleRows == {0}
SampleGarbageXs == {4}

Pc(kind, rotation, x, y) == [kind |-> kind, rotation |-> rotation, x |-> x, y |-> y]

\* pieces inside the field, and one (the last) with a cell outside of it
SamplePieces ==
    { Pc(PT, North, 2, 0), Pc(PO, West, 4, 3), Pc(PS, East, 8, 1),
      Pc(PT, North, 0, 0) }

\* U+00E9 followed by "u", and U+1F600 (a surrogate pair)
SampleComments == { << 233, 117 >>, << 128512 >> }

IdleDoc == pages = << >> /\ guideline = TRUE /\ edits = 0
IdleEnc ==
    /\ data = << >>
    /\ prev_field = fumen_field(DefaultPage)
    /\ empty_field = None
    /\ first = TRUE
    /\ epage = 0
    /\ estart = << >>
IdleDec ==
    /\ input = << >>
    /\ dpos = 0
    /\ dpages = << >>
    /\ dguideline = TRUE
    /\ empty_fields = 0
    /\ result = "running"
IdlePiece == piece = Pc(PT, North, 2, 0) /\ fpos = None /\ back = None
IdleComment == comment = << >> /\ packed = None /\ unpacked = None

----------------------------------------------------------------------------
(* Building a document: Fumen::default, add_page, and writes to the public *)
(* fields of the last page.                                                *)

Init ==
    /\ overflow_checks \in BOOLEAN
    /\ phase = "build"
    /\ IdleDoc /\ IdleEnc /\ IdleDec /\ IdlePiece /\ IdleComment

CanEdit == phase = "build" /\ pages # << >> /\ edits < MaxEdits

EditLast(page) ==
    /\ pages' = [pages EXCEPT ![Len(pages)] = page]
    /\ edits' = edits + 1
    /\ UNCHANGED <<overflow_checks, phase, guideline, encVars, decVars,
                   pieceVars, commentVars>>

Last == pages[Len(pages)]

AddPageUpTo(limit) ==
    /\ phase = "build"
    /\ Len(pages) < limit
    /\ ~AddPagePanics(pages)
    /\ pages' = Append(pages, AddedPage(pages))
    /\ UNCHANGED <<overflow_checks, phase, guideline, edits, encVars, decVars,
                   pieceVars, commentVars>>

AddPage == AddPageUpTo(MaxPages)

PushDefault ==
    /\ phase = "build"
    /\ Len(pages) < MaxPages
    /\ pages' = Append(pages, DefaultPage)
    /\ UNCHANGED <<overflow_checks, phase, guideline, edits, encVars, decVars,
                   pieceVars, commentVars>>

SetCell ==
    /\ CanEdit
    /\ \E c \in SampleCells : EditLast([Last EXCEPT !.field[c[2]][c[1]] = c[3]])

SetRow ==
    /\ CanEdit
    /\ \E y \in SampleRows : EditLast([Last EXCEPT !.field[y] = [x \in Xs |-> Grey]])

SetGarbage ==
    /\ CanEdit
    /\ \E x \in SampleGarbageXs : EditLast([Last EXCEPT !.garbage_row[x] = Grey])

SetPiece ==
    /\ CanEdit
    /\ \E p \in SamplePieces : EditLast([Last EXCEPT !.piece = Some(p)])

SetRise == CanEdit /\ EditLast([Last EXCEPT !.rise = TRUE])

SetMirror == CanEdit /\ EditLast([Last EXCEPT !.mirror = TRUE])

SetLock == CanEdit /\ EditLast([Last EXCEPT !.lock = FALSE])

SetComment ==
    /\ CanEdit
    /\ \E t \in SampleComments : EditLast([Last EXCEPT !.comment = Some(t)])

SetGuideline ==
    /\ phase = "build"
    /\ guideline
    /\ guideline' = FALSE
    /\ UNCHANGED <<overflow_checks, phase, pages, edits, encVars, decVars,
                   pieceVars, commentVars>>

Build ==
    \/ AddPage \/ PushDefault \/ SetCell \/ SetRow \/ SetGarbage \/ SetPiece
    \/ SetRise \/ SetMirror \/ SetLock \/ SetComment \/ SetGuideline

----------------------------------------------------------------------------
(* Fumen::encode, page by page. *)

EncState ==
    [data |-> data, prev_field |-> prev_field, empty_field |-> empty_field,
     first |-> first]

\* lines 76-79
EncodeStart ==
    /\ phase = "build"
    /\ phase' = "encode"
    /\ data' = Header
    /\ prev_field' = [y \in 0 .. (FumenRows - 1) |-> EmptyRow]
    /\ empty_field' = None
    /\ first' = TRUE
    /\ epage' = 0
    /\ estart' = << >>
    /\ UNCHANGED <<overflow_checks, docVars, decVars, pieceVars, commentVars>>

\* lines 80-155, a page on which encode does not panic
EncodeNext ==
    /\ phase = "encode"
    /\ epage < Len(pages)
    /\ ~EncodePanics(pages[epage + 1], overflow_checks)
    /\ LET st == EncodePage(EncState, pages[epage + 1], guideline, overflow_checks)
       IN  /\ data' = st.data
           /\ prev_field' = st.prev_field
           /\ empty_field' = st.empty_field
           /\ first' = st.first
    /\ epage' = epage + 1
    /\ estart' = Append(estart, Len(data))
    /\ UNCHANGED <<overflow_checks, phase, docVars, decVars, pieceVars, commentVars>>

\* the panic of fumen_pos or next_page inside the loop
EncodePanic ==
    /\ phase = "encode"
    /\ epage < Len(pages)
    /\ EncodePanics(pages[epage + 1], overflow_checks)
    /\ phase' = "encode_panic"
    /\ UNCHANGED <<overflow_checks, docVars, encVars, decVars, pieceVars, commentVars>>

\* lines 157-162: the returned string, handed to decode
EncodeFinish ==
    /\ phase = "encode"
    /\ epage = Len(pages)
    /\ data' = EncodeEnd(EncState)
    /\ empty_field' = None
    /\ phase' = "encoded"
    /\ input' = data'
    /\ UNCHANGED <<overflow_checks, docVars, prev_field, first, epage, estart, dpos, dpages,
                   dguideline, empty_fields, result, pieceVars, commentVars>>

----------------------------------------------------------------------------
(* Fumen::decode, page by page. *)

DecState ==
    [status |-> "ok", pos |-> dpos, pages |-> dpages, guideline |-> dguideline,
     empty_fields |-> empty_fields]

\* lines 166-171
DecodeStart ==
    /\ phase = "encoded"
    /\ LET h == HeaderCheck(input)
       IN  /\ result' = IF h = "ok" THEN "running" ELSE h
           /\ phase' = IF h = "ok" THEN "decode" ELSE "done"
    /\ dpos' = 0
    /\ dpages' = << >>
    /\ dguideline' = TRUE
    /\ empty_fields' = 0
    /\ UNCHANGED <<overflow_checks, docVars, encVars, input, pieceVars, commentVars>>

\* lines 172-285: one iteration of the loop
DecodeNext ==
    /\ phase = "decode"
    /\ dpos < Len(Items(input))
    /\ LET st == DecodeStep(Items(input), DecState, overflow_checks)
       IN  /\ dpos' = st.pos
           /\ dpages' = st.pages
           /\ dguideline' = st.guideline
           /\ empty_fields' = st.empty_fields
           /\ result' = IF st.status = "ok" THEN "running" ELSE st.status
           /\ phase' = IF st.status = "ok" THEN "decode" ELSE "done"
    /\ UNCHANGED <<overflow_checks, docVars, encVars, input, pieceVars, commentVars>>

\* line 286
DecodeFinish ==
    /\ phase = "decode"
    /\ dpos = Len(Items(input))
    /\ result' = "Some"
    /\ phase' = "done"
    /\ UNCHANGED <<overflow_checks, docVars, encVars, input, dpos, dpages, dguideline,
                   empty_fields, pieceVars, commentVars>>

Encode == EncodeStart \/ EncodeNext \/ EncodePanic \/ EncodeFinish
Decode == DecodeStart \/ DecodeNext \/ DecodeFinish

Next == Build \/ Encode \/ Decode

Spec == Init /\ [][Next]_vars

----------------------------------------------------------------------------
(* Round trip (C1). *)

\* the documents the round trip is claimed for: every piece inside the field
\* (every comment of the model escapes to far fewer than 4095 bytes)
DocValid ==
    \A i \in 1 .. Len(pages) :
        IsSome(pages[i].piece) => PieceInField(Unwrap(pages[i].piece))

\* decode(encode(d)) = Some(d), pages and flag
RoundTrips == result = "Some" /\ dpages = pages /\ dguideline = guideline

\* C1 as stated: every valid document, whatever its number of pages and its
\* flag, is returned unchanged by decode(encode(d)).
C1_RoundTripEveryDocument == (phase = "done" /\ DocValid) => RoundTrips

\* C1 amended: every valid document with at least one page, and the empty
\* document whose flag is set, is returned unchanged by decode(encode(d)).
C1_RoundTrip ==
    (phase = "done" /\ DocValid /\ (pages # << >> \/ guideline)) => RoundTrips

\* a two-page document with a piece and a comment and the flag cleared came back
C1_Witness ==
    /\ phase = "done"
    /\ DocValid
    /\ Len(pages) = 2
    /\ ~guideline
    /\ \E i \in 1 .. 2 : IsSome(pages[i].piece) /\ IsSome(pages[i].comment)
    /\ RoundTrips

----------------------------------------------------------------------------
(* The coordinate mapper on its own: every piece with its centre in the    *)
(* field goes through fumen_pos, the page number's three digits, and the   *)
(* decoder's conversion.                                                   *)

AllPieces ==
    { Pc(k, r, x, y) : k \in PI .. PS, r \in South .. West, x \in Xs, y \in Ys }

InitPiece ==
    /\ overflow_checks \in BOOLEAN
    /\ phase = "piece"
    /\ piece \in AllPieces
    /\ fpos = None
    /\ back = None
    /\ IdleDoc /\ IdleEnc /\ IdleDec /\ IdleComment

\* Piece::fumen_pos returns
ToFumen ==
    /\ phase = "piece"
    /\ fumen_pos(piece, overflow_checks) # None
    /\ fpos' = fumen_pos(piece, overflow_checks)
    /\ phase' = "pos"
    /\ UNCHANGED <<overflow_checks, piece, back, docVars, encVars, decVars, commentVars>>

\* Piece::fumen_pos panics on overflow
ToFumenPanic ==
    /\ phase = "piece"
    /\ fumen_pos(piece, overflow_checks) = None
    /\ phase' = "pos_panic"
    /\ UNCHANGED <<overflow_checks, pieceVars, docVars, encVars, decVars, commentVars>>

\* the page number of a default page holding the piece, as encode pushes it
PieceWord(p, pos) ==
    ThreeDigits(PageFlags([DefaultPage EXCEPT !.piece = Some(p)], pos, FALSE, TRUE))

\* the number decode reads back from three pushed digits
WordNumber(w) == ReadNumber([i \in 1 .. 3 |-> from_base64(w[i])], 0, 3)

\* decode's conversion of the pushed number returns
FromFumen ==
    /\ phase = "pos"
    /\ LET pc == DecodePiece(WordNumber(PieceWord(piece, Unwrap(fpos))), overflow_checks)
       IN  /\ pc # None
           /\ back' = pc
    /\ phase' = "back"
    /\ UNCHANGED <<overflow_checks, piece, fpos, docVars, encVars, decVars, commentVars>>

\* decode's conversion panics on overflow
FromFumenPanic ==
    /\ phase = "pos"
    /\ DecodePiece(WordNumber(PieceWord(piece, Unwrap(fpos))), overflow_checks) = None
    /\ phase' = "back_panic"
    /\ UNCHANGED <<overflow_checks, pieceVars, docVars, encVars, decVars, commentVars>>

NextPiece == ToFumen \/ ToFumenPanic \/ FromFumen \/ FromFumenPanic

SpecPiece == InitPiece /\ [][NextPiece]_vars

\* the corrections as the claim lists them
ListedFormatX(p) ==
    IF p.kind = PS /\ p.rotation = East THEN p.x + 1
    ELSE IF << p.kind, p.rotation >> \in
              { << PZ, West >>, << PO, West >>, << PO, South >>, << PI, South >> }
         THEN p.x - 1
         ELSE p.x

ListedFormatY(p) ==
    IF << p.kind, p.rotation >> \in
         { << PS, North >>, << PZ, North >>, << PO, North >>, << PO, West >>,
           << PI, West >> }
    THEN p.y + 1
    ELSE p.y

ListedPosition(p) == ListedFormatX(p) + (22 - ListedFormatY(p)) * 10

\* C9: for a piece whose four cells lie inside the playfield, fumen_pos does not
\* overflow and is format_x + (22 - format_y) * 10 with format_x in 0..9 and the
\* position in 0..239, under the listed corrections, and the decoder's
\* conversion of that position gives back the original centre.
C9_PositionRoundTrip ==
    PieceInField(piece) =>
        /\ phase \notin {"pos_panic", "back_panic"}
        /\ ListedFormatX(piece) \in 0 .. 9
        /\ 22 - ListedFormatY(piece) >= 0
        /\ phase \in {"pos", "back"} =>
              /\ fpos = Some(ListedPosition(piece))
              /\ Unwrap(fpos) \in 0 .. 239
        /\ phase = "back" => back = Some(piece)

\* an O piece facing West (both corrections apply) came back from its position
C9_Witness ==
    /\ phase = "back"
    /\ piece = Pc(PO, West, 1, 21)
    /\ fpos = Some(0)
    /\ back = Some(piece)

----------------------------------------------------------------------------
(* The comment codec on its own: a text goes through the encoder's escape  *)
(* and pack and the decoder's unpack and unescape.                         *)

MaxCommentLen == 3

\* "a", space, "%", "u", U+00E9, U+0100, U+3042, U+1F600 and U+10FFFF
SampleChars == { 97, 32, 37, 117, 233, 256, 12354, 128512, 1114111 }

RECURSIVE TextsUpTo(_)
TextsUpTo(n) ==
    IF n = 0 THEN { << >> }
    ELSE LET T == TextsUpTo(n - 1)
         IN  T \cup { Append(t, c) : t \in { u \in T : Len(u) = n - 1 }, c \in SampleChars }

InitComment ==
    /\ overflow_checks \in BOOLEAN
    /\ phase = "text"
    /\ comment \in TextsUpTo(MaxCommentLen)
    /\ packed = None
    /\ unpacked = None
    /\ IdleDoc /\ IdleEnc /\ IdleDec /\ IdlePiece

\* encode, lines 134-151
PackComment ==
    /\ phase = "text"
    /\ packed' = Some(EncodeComment(comment))
    /\ phase' = "packed"
    /\ UNCHANGED <<overflow_checks, comment, unpacked, docVars, encVars, decVars,
                   pieceVars>>

\* the next page's field marker, which follows a comment in the stream
Trailer == << 118, 104 >>

\* decode, lines 267-280, on the packed comment followed by more of the stream
UnpackComment ==
    /\ phase = "packed"
    /\ LET stream == Unwrap(packed) \o Trailer
           ds == [ i \in 1 .. Len(stream) |-> from_base64(stream[i]) ]
           c == DecodeComment(ds, 0)
       IN  /\ c.ok
           /\ unpacked' = Some([text |-> c.text, used |-> c.pos])
    /\ phase' = "unpacked"
    /\ UNCHANGED <<overflow_checks, comment, packed, docVars, encVars, decVars,
                   pieceVars>>

NextComment == PackComment \/ UnpackComment

SpecComment == InitComment /\ [][NextComment]_vars

\* the number of 4-byte chunks of n escaped bytes
C8_Chunks(n) == (n + 3) \div 4

\* the length of the escaped form, from the classes of characters
RECURSIVE C8_EscapedLen(_)
C8_EscapedLen(t) ==
    IF t = << >> THEN 0
    ELSE (IF Unescaped(Head(t)) THEN 1
          ELSE IF Head(t) <= 255 THEN 3
          ELSE IF Head(t) < 65536 THEN 6 ELSE 12)
         + C8_EscapedLen(Tail(t))

\* C8: the digits pushed for a comment are the 2-digit escaped length and one
\* 5-digit group per chunk of up to 4 escaped bytes, and the decoder's unpack
\* and unescape of them returns exactly the text and consumes exactly them.
C8_CommentRoundTrip ==
    /\ phase \in {"packed", "unpacked"} =>
          LET n == C8_EscapedLen(comment)
              p == Unwrap(packed)
          IN  /\ Len(p) = 2 + 5 * C8_Chunks(n)
              /\ from_base64(p[1]) + 64 * from_base64(p[2]) = n
              /\ \A i \in 1 .. Len(p) : from_base64(p[i]) \in 0 .. 63
    /\ phase = "unpacked" =>
          /\ Unwrap(unpacked).text = comment
          /\ Unwrap(unpacked).used = Len(Unwrap(packed))
    /\ (phase = "text" /\ comment = << >>) =>
          \A n \in 0 .. MaxEscaped :
              WordNumber(LengthDigits(n) \o << B64(0) >>) = n

\* a text mixing an ASCII, a Latin-1 and a supplementary-plane character came back
C8_Witness ==
    /\ phase = "unpacked"
    /\ comment = << 97, 233, 128512 >>
    /\ Unwrap(unpacked).text = comment

----------------------------------------------------------------------------
(* The transition engine on its own: next_page of one page.                *)

FullRow == [x \in Xs |-> Grey]
RowWith(x0, c) == [x \in Xs |-> IF x = x0 THEN c ELSE 0]
\* grey but for columns 1..3, which a T piece at (2, 0) fills
GapRow == [x \in Xs |-> IF x \in 1 .. 3 THEN 0 ELSE Grey]

SampleRow0 == { EmptyRow, FullRow, GapRow, RowWith(0, PI) }
SampleRow1 == { EmptyRow, FullRow, RowWith(9, Grey) }
SampleRow2 == { EmptyRow, FullRow, RowWith(5, PT) }
SampleRow22 == { EmptyRow, RowWith(0, Grey) }
SampleGarbage == { EmptyRow, FullRow, RowWith(4, Grey) }

\* no piece, three pieces inside the field, and one with a cell outside of it
SamplePagePieces ==
    { None, Some(Pc(PT, North, 2, 0)), Some(Pc(PS, East, 8, 1)),
      Some(Pc(PI, West, 0, 1)), Some(Pc(PT, North, 0, 0)) }

SamplePages ==
    { [ piece |-> pc,
        field |-> [ y \in Ys |-> CASE y = 0 -> r0 [] y = 1 -> r1 [] y = 2 -> r2
                                   [] y = 22 -> r22 [] OTHER -> EmptyRow ],
        garbage_row |-> g, rise |-> rs, mirror |-> mr, lock |-> lk,
        comment |-> None ] :
      pc \in SamplePagePieces, r0 \in SampleRow0, r1 \in SampleRow1,
      r2 \in SampleRow2, r22 \in SampleRow22, g \in SampleGarbage,
      rs \in BOOLEAN, mr \in BOOLEAN, lk \in BOOLEAN }

\* next_page has no arithmetic that can overflow: one build profile is enough
InitPage ==
    /\ overflow_checks = TRUE
    /\ phase = "page"
    /\ pages \in { << pg >> : pg \in SamplePages }
    /\ guideline = TRUE
    /\ edits = 0
    /\ IdleEnc /\ IdleDec /\ IdlePiece /\ IdleComment

\* Fumen::add_page on the one-page document
Transition ==
    /\ phase = "page"
    /\ ~AddPagePanics(pages)
    /\ pages' = Append(pages, AddedPage(pages))
    /\ phase' = "stepped"
    /\ UNCHANGED <<overflow_checks, guideline, edits, encVars, decVars, pieceVars,
                   commentVars>>

\* next_page indexes outside the field
TransitionPanic ==
    /\ phase = "page"
    /\ AddPagePanics(pages)
    /\ phase' = "page_panic"
    /\ UNCHANGED <<overflow_checks, docVars, encVars, decVars, pieceVars, commentVars>>

NextPageStep == Transition \/ TransitionPanic

SpecPage == InitPage /\ [][NextPageStep]_vars

\* (1) lock
C6_Locked(pg) ==
    [ y \in Ys |-> [ x \in Xs |->
        IF /\ IsSome(pg.piece)
           /\ pg.lock
           /\ << x, y >> \in { cells(Unwrap(pg.piece))[i] : i \in 1 .. 4 }
        THEN Unwrap(pg.piece).kind
        ELSE pg.field[y][x] ] ]

\* (2) line clear: the rows with an empty cell, in their order, then empty rows
C6_Kept(f) == { y \in Ys : \E x \in Xs : f[y][x] = 0 }

C6_Cleared(f) ==
    LET kept == C6_Kept(f)
        n == Cardinality(kept)
    IN  [ i \in Ys |->
            IF i < n
            THEN f[CHOOSE y \in kept : Cardinality({ z \in kept : z < y }) = i]
            ELSE EmptyRow ]

\* (3) rise
C6_Risen(f, pg) ==
    IF pg.rise THEN [ i \in Ys |-> IF i = 0 THEN pg.garbage_row ELSE f[i - 1] ]
    ELSE f

\* (4) mirror
C6_Mirrored(f, pg) ==
    IF pg.mirror
    THEN [ y \in Ys |-> LET row == f[y] IN [ x \in Xs |-> row[9 - x] ] ]
    ELSE f

\* C6: for a page whose piece, if any, lies inside the playfield, next_page is
\* lock, then line clear of the 23 playfield rows, then rise, then mirror; the
\* garbage row is emptied by rise and untouched otherwise; the result has no
\* piece, no comment, rise and mirror false and the same lock.
C6_NextPageSteps ==
    phase = "stepped" =>
        LET pg == pages[1]
        IN  pages[2] =
              [ piece |-> None, comment |-> None, rise |-> FALSE, mirror |-> FALSE,
                lock |-> pg.lock,
                field |-> C6_Mirrored(C6_Risen(C6_Cleared(C6_Locked(pg)), pg), pg),
                garbage_row |-> IF pg.rise THEN EmptyRow ELSE pg.garbage_row ]

\* a locked T piece completed row 0, which was cleared below a kept row, and
\* the garbage row rose and was mirrored
C6_Witness ==
    /\ phase = "stepped"
    /\ pages[1].piece = Some(Pc(PT, North, 2, 0))
    /\ pages[1].lock /\ pages[1].rise /\ pages[1].mirror
    /\ pages[1].field[0] = GapRow
    /\ pages[1].field[2] = RowWith(5, PT)
    /\ pages[1].garbage_row = RowWith(4, Grey)
    /\ pages[2].field[0] = RowWith(5, Grey)
    /\ pages[2].field[1] = RowWith(7, PT)
    /\ pages[2].field[2] = RowWith(4, PT)

C7_ClearAndPieceFree(pg) ==
    /\ pg.piece = None
    /\ \A y \in Ys : \E x \in Xs : pg.field[y][x] = 0

\* C7 as stated: next_page of a page with no piece and no filled playfield row
\* has the same field as the page.
C7_IdentityOnClearPage ==
    (phase = "stepped" /\ C7_ClearAndPieceFree(pages[1]))
        => pages[2].field = pages[1].field

\* C7 amended: next_page of a page with no piece, no filled playfield row and
\* neither rise nor mirror set has the same field as the page.
C7_IdentityWithoutFlags ==
    (phase = "stepped" /\ C7_ClearAndPieceFree(pages[1])
       /\ ~pages[1].rise /\ ~pages[1].mirror)
        => pages[2].field = pages[1].field

\* a piece-free page with three partly filled rows went through unchanged
C7_Witness ==
    /\ phase = "stepped"
    /\ C7_ClearAndPieceFree(pages[1])
    /\ ~pages[1].rise /\ ~pages[1].mirror
    /\ pages[1].field[0] = RowWith(0, PI)
    /\ pages[1].field[1] = RowWith(9, Grey)
    /\ pages[1].field[22] = RowWith(0, Grey)
    /\ pages[2].field = pages[1].field

----------------------------------------------------------------------------
(* Runs of unchanged pages: a document of N pages appended by add_page     *)
(* with no edits, encoded.                                                 *)

MaxRunPages == 66

\* piece-free pages: encode has no arithmetic that can overflow on them
InitRun ==
    /\ overflow_checks = TRUE
    /\ phase = "build"
    /\ IdleDoc /\ IdleEnc /\ IdleDec /\ IdlePiece /\ IdleComment

RunAddPage == AddPageUpTo(MaxRunPages)

NextRun ==
    \/ RunAddPage \/ SetGuideline \/ EncodeStart \/ EncodeNext \/ EncodeFinish

SpecRun == InitRun /\ [][NextRun]_vars

\* the positions of the shorthand markers "vh" in the output
C4_Markers == { k \in 6 .. (Len(data) - 2) : data[k] = 118 /\ data[k + 1] = 104 }

\* the count digit that follows the marker at k
C4_Count(k) == from_base64(data[k + 2])

\* C4 as stated: N unchanged pages give exactly one marker with count digit
\* N - 1 whenever N <= 63, and more than one marker whenever N > 63.
C4_OneMarkerUpTo63 ==
    (phase = "encoded" /\ Len(pages) >= 1) =>
        /\ Len(pages) <= 63 =>
              /\ Cardinality(C4_Markers) = 1
              /\ \A k \in C4_Markers : C4_Count(k) = Len(pages) - 1
        /\ Len(pages) > 63 => Cardinality(C4_Markers) > 1

\* C4 amended: N unchanged pages give exactly one marker with count digit N - 1
\* whenever N <= 64, and more than one marker whenever N > 64: the count of one
\* marker saturates at 63, so one marker covers at most 64 pages and the next
\* unchanged page starts a new marker.
C4_OneMarkerUpTo64 ==
    (phase = "encoded" /\ Len(pages) >= 1) =>
        /\ Len(pages) <= 64 =>
              /\ Cardinality(C4_Markers) = 1
              /\ \A k \in C4_Markers : C4_Count(k) = Len(pages) - 1
        /\ Len(pages) > 64 =>
              /\ Cardinality(C4_Markers) > 1
              /\ C4_Count(6) = 63
              /\ 6 + 3 + 64 * 3 \in C4_Markers
        /\ 6 \in C4_Markers
        /\ \A k \in C4_Markers : C4_Count(k) \in 0 .. 63

\* 65 unchanged pages were encoded with two markers, the first saturated
C4_Witness ==
    /\ phase = "encoded"
    /\ Len(pages) = 65
    /\ Cardinality(C4_Markers) = 2
    /\ C4_Count(6) = 63

----------------------------------------------------------------------------
(* decode on arbitrary text: a header, right or wrong, followed by pieces  *)
(* of well-formed and malformed streams.                                   *)

MaxTokens == 3

SampleTokens ==
    {
      \* vhAAgH: an unchanged field, count 0, and a page number with the flag bit
      << 118, 104, 65, 65, 103, 72 >>,
      \* vhBAAA: an unchanged field, count 1, and the page number 0
      << 118, 104, 66, 65, 65, 65 >>,
      \* AAA: the page number 0 alone
      << 65, 65, 65 >>,
      \* vhAVAA: a locked T piece at position 0: cells outside the field
      << 118, 104, 65, 86, 65, 65 >>,
      \* vhA13B: a locked T piece at position 239: row 23 of the format
      << 118, 104, 65, 49, 51, 66 >>,
      \* vhAPuB: a locked S piece facing East at position 220: format x = 0
      << 118, 104, 65, 80, 117, 66 >>,
      \* vhAVAe: the T piece at position 0, not locked
      << 118, 104, 65, 86, 65, 101 >>,
      \* vDAAA: 240 cells of delta 0 on an empty baseline
      << 118, 68, 65, 65, 65 >>,
      \* uhvh: a run of 239 cells and one of 240: the field overflows
      << 117, 104, 118, 104 >>,
      \* !: a character outside the alphabet
      << 33 >>,
      \* //fhAAA: 16 cells of delta 17
      << 47, 47, 102, 104, 65, 65, 65 >>,
      \* vhAAAPBABBAAA: a page with the comment "a"
      << 118, 104, 65, 65, 65, 80, 66, 65, 66, 66, 65, 65, 65 >>,
      \* vhAAAPBA: a page whose comment ends after its length
      << 118, 104, 65, 65, 65, 80, 66, 65 >>,
      \* vh: a field that ends before its count
      << 118, 104 >>,
      \* vhAA: a page that ends inside its number
      << 118, 104, 65, 65 >> }

\* "", "v11", "v115", "v115" and U+00E9 (two bytes), "w115@", "V115@"
BadHeaders ==
    { << >>, << 118, 49, 49 >>, << 118, 49, 49, 53 >>, << 118, 49, 49, 53, 233 >>,
      << 119, 49, 49, 53, 64 >>, << 86, 49, 49, 53, 64 >> }

RECURSIVE Bodies(_)
Bodies(n) ==
    IF n = 0 THEN { << >> }
    ELSE LET B == Bodies(n - 1)
         IN  B \cup { b \o t : b \in B, t \in SampleTokens }

DecodeInputs ==
    { Header \o b : b \in Bodies(MaxTokens) }
    \cup { h \o b : h \in BadHeaders, b \in Bodies(1) }

InitDecode ==
    /\ overflow_checks \in BOOLEAN
    /\ phase = "encoded"
    /\ input \in DecodeInputs
    /\ dpos = 0
    /\ dpages = << >>
    /\ dguideline = TRUE
    /\ empty_fields = 0
    /\ result = "running"
    /\ IdleDoc /\ IdleEnc /\ IdlePiece /\ IdleComment

SpecDecode == InitDecode /\ [][Decode]_vars

\* the first five characters of the input are exactly v115@
HasHeader == Len(input) >= 5 /\ SubSeq(input, 1, 5) = Header

\* C2: on every input that begins with v115@, decode ends in a returned
\* document or None and never in a crash.
C2_NoCrashAfterHeader == HasHeader => result # "panic"

\* C3: on every input whose first five characters are not v115@, the empty
\* string and shorter inputs included, decode returns None without crashing.
C3_NoneWithoutHeader == (phase = "done" /\ ~HasHeader) => result = "None"

----------------------------------------------------------------------------
(* The page just encoded, read from the output buffer (C5, C10).           *)

\* encode has just finished the iteration of page epage
JustEncoded == phase = "encode" /\ epage >= 1

EncodedPage == pages[epage]

\* the bytes pushed by that iteration (a placeholder may be among them)
Segment == SubSeq(data, estart[epage] + 1, Len(data))

\* the number of bytes its comment takes
CommentBytes ==
    IF IsSome(EncodedPage.comment)
    THEN 2 + 5 * C8_Chunks(C8_EscapedLen(Unwrap(EncodedPage.comment)))
    ELSE 0

\* the number read from the three digits that precede the comment
EncodedWord ==
    LET at == Len(data) - CommentBytes - 3
    IN  from_base64(data[at + 1]) + 64 * from_base64(data[at + 2])
        + 4096 * from_base64(data[at + 3])

\* piece_field_number + 240*32*(rise + 2*mirror + 8*has_comment + 16*not_lock)
ListedPageNumber(pg) ==
    (IF IsSome(pg.piece)
     THEN Unwrap(pg.piece).kind + 8 * Unwrap(pg.piece).rotation
          + 32 * ListedPosition(Unwrap(pg.piece))
     ELSE 0)
    + 240 * 32 * ( BoolInt(pg.rise) + 2 * BoolInt(pg.mirror)
                   + 8 * BoolInt(IsSome(pg.comment)) + 16 * BoolInt(~pg.lock) )

PieceValid(pg) == IsSome(pg.piece) => PieceInField(Unwrap(pg.piece))

\* the page number with `weight` times 240 * 32 added for the flag on page 1
C5_Expected(weight) ==
    ListedPageNumber(EncodedPage)
    + (IF epage = 1 /\ guideline THEN 240 * 32 * weight ELSE 0)

\* C5 as stated: the three digits of a page are the little-endian base-64
\* digits of its page number, plus 240*32*128 on the first page when the flag
\* is set, and that integer is below 64^3.
C5_WordWithTerm128 ==
    (JustEncoded /\ PieceValid(EncodedPage)) =>
        /\ C5_Expected(128) < 64 * 64 * 64
        /\ EncodedWord = C5_Expected(128)

\* C5 amended: the three digits of a page are the little-endian base-64 digits
\* of its page number, plus 240*32*4 (= 240*128) on the first page when the
\* flag is set, and that integer is below 64^3.
C5_WordWithTerm4 ==
    (JustEncoded /\ PieceValid(EncodedPage)) =>
        /\ C5_Expected(4) < 64 * 64 * 64
        /\ EncodedWord = C5_Expected(4)

\* the first page, with a piece in the field and a comment, was encoded with
\* the flag set
C5_Witness ==
    /\ JustEncoded
    /\ epage = 1
    /\ guideline
    /\ IsSome(pages[1].piece) /\ PieceInField(Unwrap(pages[1].piece))
    /\ IsSome(pages[1].comment)
    /\ EncodedWord >= 240 * 32 * 4 + 240 * 32 * 8

\* the page add_page derives from the pages before the one just encoded
C10_Base == AddedPage(SubSeq(pages, 1, epage - 1))

\* the baseline of the page just encoded, in linear order
C10_Previous(base) ==
    Linear(IF epage = 1 THEN [y \in 0 .. 23 |-> EmptyRow] ELSE fumen_field(base))

\* the first cells of the maximal runs, in linear order
C10_Starts(d) ==
    LET S == { k \in 1 .. 240 : k = 1 \/ d[k] # d[k - 1] }
    IN  [ j \in 1 .. Cardinality(S) |->
            CHOOSE k \in S : Cardinality({ z \in S : z < k }) = j - 1 ]

\* C10: when the field of a page differs from its baseline, encode pushes one
\* 2-digit number per maximal run of equal deltas, in linear order, each
\* value * 240 + run_length - 1 and at most 4079, the run lengths summing to
\* 240; decode's reading of those numbers against the same baseline, with
\* value = number / 240 and repeats = number % 240 + 1, rebuilds the field as
\* previous + delta - 8.
C10_RunLengthRoundTrip ==
    (JustEncoded /\ PieceValid(EncodedPage)) =>
        LET base == C10_Base
            prev == Strict(C10_Previous(base))
            cur == Strict(Linear(fumen_field(EncodedPage)))
        IN  cur # prev =>
            LET d == Strict([ k \in 1 .. 240 |-> 8 + cur[k] - prev[k] ])
                starts == Strict(C10_Starts(d))
                n == Len(starts)
                seg == Strict(Segment)
                len(j) == (IF j = n THEN 241 ELSE starts[j + 1]) - starts[j]
                num(j) == from_base64(seg[2 * j - 1]) + 64 * from_base64(seg[2 * j])
                ds == Strict([ i \in 1 .. 2 * n |-> from_base64(seg[i]) ])
                dec == DecodeField(ds, 0, 0, base, overflow_checks)
            IN  /\ \A k \in 1 .. 240 : d[k] \in 0 .. 16
                /\ Len(seg) = 2 * n + 3 + CommentBytes
                /\ \A j \in 1 .. n :
                     /\ num(j) = d[starts[j]] * 240 + len(j) - 1
                     /\ num(j) <= 4079
                     /\ num(j) \div 240 = d[starts[j]]
                     /\ (num(j) % 240) + 1 = len(j)
                /\ dec.status = "ok"
                /\ dec.pos = 2 * n
                /\ dec.page.field = EncodedPage.field
                /\ dec.page.garbage_row = EncodedPage.garbage_row

\* the second page, on a baseline that holds a grey cell, added a cell: the
\* deltas fall into three runs
C10_Witness ==
    /\ JustEncoded
    /\ epage = 2
    /\ pages[1].field[22][0] = Grey
    /\ pages[2].field[22][0] = Grey
    /\ pages[2].field[0][9] = PI
    /\ pages[1].field[0][9] = 0
    /\ Len(Segment) = 2 * 3 + 3

----------------------------------------------------------------------------
(* The run-count placeholder (C11): long documents appended by add_page,   *)
(* with at most a few writes to the second page, encoded page by page.     *)

MaxPatchPages == 67
MaxPatchEdits == 1

\* the page a write may go to
SampleChangeAt == {2}

InitPatch ==
    /\ overflow_checks = TRUE
    /\ phase = "build"
    /\ IdleDoc /\ IdleEnc /\ IdleDec /\ IdlePiece /\ IdleComment

PatchAddPage == AddPageUpTo(MaxPatchPages)

CanPatchEdit ==
    /\ phase = "build"
    /\ Len(pages) \in SampleChangeAt
    /\ edits < MaxPatchEdits

PatchSetCell == CanPatchEdit /\ EditLast([Last EXCEPT !.field[0][9] = PI])

PatchSetComment ==
    CanPatchEdit /\ EditLast([Last EXCEPT !.comment = Some(<< 233, 117 >>)])

NextPatch ==
    \/ PatchAddPage \/ PatchSetCell \/ PatchSetComment
    \/ EncodeStart \/ EncodeNext \/ EncodeFinish

SpecPatch == InitPatch /\ [][NextPatch]_vars

\* page i of the document has the field encode compares it with
C11_Unchanged(i) ==
    fumen_field(pages[i]) =
        (IF i = 1 THEN [y \in 0 .. 23 |-> EmptyRow]
         ELSE fumen_field(next_page(pages[i - 1])))

\* for each of the first n pages: -1 if its field changed, else the number of
\* unchanged pages directly before it
RECURSIVE C11_Ords(_, _)
C11_Ords(U, n) ==
    IF n = 0 THEN << >>
    ELSE LET r == C11_Ords(U, n - 1)
         IN  Append(r, IF ~U[n] THEN -1
                       ELSE IF n = 1 THEN 0
                       ELSE IF r[n - 1] = -1 THEN 0 ELSE r[n - 1] + 1)

\* C11: during encode at most one placeholder is pending; each run of
\* unchanged pages (at most 64 under one marker) starts with the marker "vh"
\* and a placeholder, which holds the digit for (pages in the run - 1) once
\* the run has ended on a changed page, on saturation or at the end of the
\* document; the returned string has no placeholder left and is the header
\* v115@ followed by symbols of the alphabet only.
C11_PlaceholderPatched ==
    (phase \in {"encode", "encoded"}) =>
        LET U == Strict([ i \in 1 .. epage |-> C11_Unchanged(i) ])
            ord == Strict(C11_Ords(U, epage))
            starts == { i \in 1 .. epage : ord[i] >= 0 /\ ord[i] % 64 = 0 }
            len(i) == 1 + CHOOSE m \in 0 .. 63 :
                            /\ i + m <= epage /\ ord[i + m] = ord[i] + m
                            /\ (m = 63 \/ i + m = epage \/ ord[i + m + 1] = -1)
            ended(i) == len(i) = 64 \/ i + len(i) <= epage \/ phase = "encoded"
            pending == { i \in starts : ~ended(i) }
            zeros == { k \in 1 .. Len(data) : data[k] = 0 }
        IN  /\ Cardinality(pending) <= 1
            /\ IsSome(empty_field) <=> pending # {}
            /\ zeros = { estart[i] + 3 : i \in pending }
            /\ \A i \in starts :
                 /\ data[estart[i] + 1] = 118
                 /\ data[estart[i] + 2] = 104
                 /\ ended(i) => from_base64(data[estart[i] + 3]) = len(i) - 1
            /\ phase = "encoded" =>
                 /\ zeros = {}
                 /\ SubSeq(data, 1, 5) = Header
                 /\ \A k \in 6 .. Len(data) : from_base64(data[k]) \in 0 .. 63

\* 67 pages were encoded: the run of page 1 ended on the changed page 2, the
\* run of pages 3..66 on saturation, the run of page 67 at the end
C11_Witness ==
    /\ phase = "encoded"
    /\ Len(pages) = 67
    /\ ~C11_Unchanged(2)
    /\ from_base64(data[estart[1] + 3]) = 0
    /\ from_base64(data[estart[3] + 3]) = 63
    /\ from_base64(data[estart[67] + 3]) = 0

----------------------------------------------------------------------------
(* decode on streams of whole pages (C12): changed fields, unchanged       *)
(* fields written as the marker or as two explicit runs, and bare words.   *)

MaxStreamTokens == 4

\* the characters of a sequence of digits
Tok(digits) == [ i \in 1 .. Len(digits) |-> B64(digits[i]) ]

StreamTokens ==
    {
      \* JeA8khAwD: runs (8 x 10), (16 x 1), (8 x 229): a grey cell at column 0
      \* of row 21; the word has mirror set
      Tok(<< 9, 30, 0, 60, 36, 33, 0, 48, 3 >>),
      \* vhBAAA: the marker, count 1, word 0
      Tok(<< 47, 33, 1, 0, 0, 0 >>),
      \* 3f3fBAAA: two runs (8 x 120), count 1, word 0
      Tok(<< 55, 31, 55, 31, 1, 0, 0, 0 >>),
      \* 3f3fCAwD: two runs (8 x 120), count 2, the word with mirror set
      Tok(<< 55, 31, 55, 31, 2, 0, 48, 3 >>),
      \* AAA: word 0 alone
      Tok(<< 0, 0, 0 >>),
      \* AwD: the word with mirror set alone
      Tok(<< 0, 48, 3 >>) }

RECURSIVE Streams(_)
Streams(n) ==
    IF n = 0 THEN { << >> }
    ELSE LET B == Streams(n - 1)
         IN  B \cup { b \o t : b \in B, t \in StreamTokens }

InitStream ==
    /\ overflow_checks \in BOOLEAN
    /\ phase = "encoded"
    /\ input \in { Header \o b : b \in Streams(MaxStreamTokens) }
    /\ dpos = 0
    /\ dpages = << >>
    /\ dguideline = TRUE
    /\ empty_fields = 0
    /\ result = "running"
    /\ IdleDoc /\ IdleEnc /\ IdlePiece /\ IdleComment

SpecStream == InitStream /\ [][Decode]_vars

\* the runs of one field read from pos: where they end and whether every
\* value is 8; filled counts the cells covered so far
RECURSIVE C12_Runs(_, _, _, _)
C12_Runs(ds, pos, filled, all8) ==
    IF filled = 240 THEN [ok |-> TRUE, end |-> pos, all8 |-> all8]
    ELSE IF pos + 2 > Len(ds) \/ ds[pos + 1] < 0 \/ ds[pos + 2] < 0
    THEN [ok |-> FALSE, end |-> pos, all8 |-> all8]
    ELSE LET number == ds[pos + 1] + 64 * ds[pos + 2]
         IN  IF filled + (number % 240) + 1 > 240
             THEN [ok |-> FALSE, end |-> pos, all8 |-> all8]
             ELSE C12_Runs(ds, pos + 2, filled + (number % 240) + 1,
                           all8 /\ number \div 240 = 8)

\* the pages of the stream as the claim reads them, k the pages still covered
\* by the last count: for each page whether field data is read for it, whether
\* its deltas are all 8, where its word starts, and the count left after it.
\* The words of the streams carry no comment.
RECURSIVE C12_Walk(_, _, _)
C12_Walk(ds, pos, k) ==
    IF pos >= Len(ds) THEN << >>
    ELSE IF k > 0
    THEN << [read |-> FALSE, all8 |-> FALSE, word |-> pos, left |-> k - 1] >>
         \o C12_Walk(ds, pos + 3, k - 1)
    ELSE LET r == C12_Runs(ds, pos, 0, TRUE)
         IN  IF ~r.ok THEN << >>
             ELSE IF ~r.all8
             THEN << [read |-> TRUE, all8 |-> FALSE, word |-> r.end, left |-> 0] >>
                  \o C12_Walk(ds, r.end + 3, 0)
             ELSE IF r.end >= Len(ds) \/ ds[r.end + 1] < 0 THEN << >>
             ELSE << [read |-> TRUE, all8 |-> TRUE, word |-> r.end + 1,
                      left |-> ds[r.end + 1]] >>
                  \o C12_Walk(ds, r.end + 4, ds[r.end + 1])

\* C12: whenever the 240 deltas read for a page are all 8, as the marker or as
\* several runs of value 8, decode takes the next digit as the count k; each of
\* the next k pages reads no field data, its word follows the previous page
\* directly, and its field and garbage row are those of next_page of the page
\* before it; field data is read again for the page after those k.
C12_CountAfterAllEight ==
    (phase \in {"decode", "done"} /\ result # "panic") =>
        LET ds == Strict(Items(input))
            w == Strict(C12_Walk(ds, 0, 0))
            n == Len(dpages)
            base(i) == IF i = 1 THEN DefaultPage ELSE next_page(dpages[i - 1])
        IN  /\ Len(w) >= n
            /\ \A i \in 1 .. n :
                 /\ dpages[i].mirror = (((ds[w[i].word + 2] + 64 * ds[w[i].word + 3])
                                            \div 240) % 2 = 1)
                 /\ (~w[i].read \/ w[i].all8) =>
                      /\ dpages[i].field = base(i).field
                      /\ dpages[i].garbage_row = base(i).garbage_row
                 /\ (w[i].read /\ ~w[i].all8 /\ i > 1) =>
                      dpages[i].field # base(i).field
            /\ (phase = "decode" /\ n >= 1) =>
                 /\ dpos = w[n].word + 3
                 /\ empty_fields = w[n].left

\* four pages came back: a changed field with mirror set, an unchanged field
\* written as two runs with count 1, a page with no field data, and a page
\* whose field data is read again
C12_Witness ==
    /\ phase = "done"
    /\ result = "Some"
    /\ Len(dpages) = 4
    /\ input = Header \o Tok(<< 9, 30, 0, 60, 36, 33, 0, 48, 3 >>)
                      \o Tok(<< 55, 31, 55, 31, 1, 0, 0, 0 >>)
                      \o Tok(<< 0, 48, 3 >>)
                      \o Tok(<< 47, 33, 1, 0, 0, 0 >>)
    /\ dpages[1].field[21][0] = Grey
    /\ dpages[2].field[21][9] = Grey
    /\ dpages[3].field[21][9] = Grey /\ dpages[3].mirror
    /\ dpages[4].field[21][0] = Grey

----------------------------------------------------------------------------
(* The document-wide flag (C13): small documents are encoded, the flag bit *)
(* of any page's word in the string may then be set by hand, and the       *)
(* string is decoded.                                                      *)

MaxFlagPages == 3

InitFlag ==
    /\ overflow_checks = TRUE
    /\ phase = "build"
    /\ IdleDoc /\ IdleEnc /\ IdleDec /\ IdlePiece /\ IdleComment

FlagAddPage == AddPageUpTo(MaxFlagPages)

\* where the three digits of page i start in the encoded string
WordStart(i) ==
    (IF i < Len(estart) THEN estart[i + 1] ELSE Len(data))
    - (IF IsSome(pages[i].comment)
       THEN Len(EncodeComment(Unwrap(pages[i].comment))) ELSE 0)
    - 3

\* the number held by the three digits of page i in buf
WordOf(buf, i) ==
    LET at == WordStart(i)
    IN  from_base64(buf[at + 1]) + 64 * from_base64(buf[at + 2])
        + 4096 * from_base64(buf[at + 3])

\* the string handed to decode is the encoder's with the flag bit of one more
\* page set
TamperFlag ==
    /\ phase = "encoded"
    /\ \E i \in 1 .. Len(pages) :
         LET at == WordStart(i)
             number == WordOf(input, i)
             word == ThreeDigits(number + GuidelineTerm)
         IN  /\ ~FlagBit((number \div 32) \div 240)
             /\ input' = [ k \in 1 .. Len(input) |->
                             IF k \in (at + 1) .. (at + 3) THEN word[k - at]
                             ELSE input[k] ]
    /\ UNCHANGED <<overflow_checks, phase, docVars, encVars, dpos, dpages, dguideline,
                   empty_fields, result, pieceVars, commentVars>>

NextFlag ==
    \/ FlagAddPage \/ SetGuideline \/ SetMirror \/ SetComment
    \/ EncodeStart \/ EncodeNext \/ EncodeFinish
    \/ TamperFlag
    \/ DecodeStart \/ DecodeNext \/ DecodeFinish

SpecFlag == InitFlag /\ [][NextFlag]_vars

\* bit 2 of the flags of page i's word in buf
C13_Bit(buf, i) == ((WordOf(buf, i) \div (240 * 32)) \div 4) % 2 = 1

\* C13: encode sets the flag bit in the first page's word only, and there it
\* is the document-wide flag; the flag of a decoded document with at least
\* one page is the flag bit of the first page's word in the string, whatever
\* the bits of the later pages are, and those bits change nothing else.
C13_FlagFromFirstPageOnly ==
    /\ (phase \in {"encode", "encoded", "decode", "done"}) =>
          \A i \in 1 .. epage : C13_Bit(data, i) = (i = 1 /\ guideline)
    /\ (phase \in {"decode", "done"} /\ Len(dpages) >= 1) =>
          dguideline = C13_Bit(input, 1)
    /\ phase = "done" =>
          /\ result = "Some"
          /\ dpages = pages

\* a three-page document with the flag cleared was decoded from a string in
\* which the second and third words have the flag bit set: the flag came back
\* cleared
C13_Witness ==
    /\ phase = "done"
    /\ result = "Some"
    /\ Len(dpages) = 3
    /\ ~guideline
    /\ ~C13_Bit(input, 1) /\ C13_Bit(input, 2) /\ C13_Bit(input, 3)
    /\ ~dguideline

----------------------------------------------------------------------------
(* Chains of pages (C14): add_page, again and again, on a one-page         *)
(* document with no edits in between.                                      *)

MaxChainPages == 3

\* Fumen::add_page on a document whose last page came from add_page
ChainAddPage ==
    /\ phase = "stepped"
    /\ Len(pages) < MaxChainPages
    /\ ~AddPagePanics(pages)
    /\ pages' = Append(pages, AddedPage(pages))
    /\ UNCHANGED <<overflow_checks, phase, guideline, edits, encVars, decVars,
                   pieceVars, commentVars>>

NextChain == Transition \/ TransitionPanic \/ ChainAddPage

SpecChain == InitPage /\ [][NextChain]_vars

C14_NoFilledRow(pg) == \A y \in Ys : \E x \in Xs : pg.field[y][x] = 0

\* the pages after the first have no filled row and are all equal
C14_ChainConstant ==
    /\ C14_NoFilledRow(pages[2])
    /\ \A i \in 3 .. Len(pages) :
         /\ pages[i].field = pages[2].field
         /\ pages[i].garbage_row = pages[2].garbage_row
         /\ pages[i].rise = pages[2].rise
         /\ pages[i].mirror = pages[2].mirror
         /\ pages[i].lock = pages[2].lock
         /\ pages[i] = pages[2]

\* C14 as stated: for every page whose piece lies inside the playfield,
\* next_page returns a page with no filled playfield row, and next_page of
\* that page equals it in field, garbage row and flags, so the pages of a
\* chain of add_page all carry the same field.
C14_IdempotentOnOutput ==
    (phase = "stepped" /\ PieceValid(pages[1])) => C14_ChainConstant

\* C14 amended: the same, for every page that, besides, has rise unset or an
\* empty cell in its garbage row.
C14_IdempotentUnlessFullGarbageRises ==
    (phase = "stepped" /\ PieceValid(pages[1])
       /\ (~pages[1].rise \/ \E x \in Xs : pages[1].garbage_row[x] = 0))
        => C14_ChainConstant

\* a page whose locked T piece fills row 0, with rise set and a garbage row
\* with one grey cell, was followed by two more pages: both have the garbage
\* row as row 0 and are equal
C14_Witness ==
    /\ phase = "stepped"
    /\ Len(pages) = 3
    /\ pages[1].piece = Some(Pc(PT, North, 2, 0))
    /\ pages[1].lock /\ pages[1].rise /\ pages[1].mirror
    /\ pages[1].field[0] = GapRow
    /\ pages[1].field[1] = RowWith(9, Grey)
    /\ pages[1].garbage_row = RowWith(4, Grey)
    /\ pages[2].field[0] = RowWith(5, Grey)
    /\ pages[3] = pages[2]

====
